---- MODULE Spec2Model ----
(***************************************************************************)
(* Model of the rljson/server multicast relay.                             *)
(*                                                                         *)
(* The repository holds three generations of the class Server:             *)
(*   "relay"     the synchronous relay over an array _sockets              *)
(*               (unnamed/part_001, lines 14-73);                          *)
(*   "perClient" the asynchronous relay with a Map _clients, a seen-set    *)
(*               _broadcastedRefs and one IoServer per client              *)
(*               (unnamed/part_001, lines 89-248);                         *)
(*   "store"     the store-backed relay extending BaseNode, with a Map     *)
(*               _clients, a seen-set _multicastedRefs and an IoMulti      *)
(*               fan-in (unnamed/part_000).                                *)
(* The variable variant says which class an execution is about.            *)
(*                                                                         *)
(* JavaScript runs one task at a time: a handler runs without              *)
(* interruption up to its next await.  Every action below is one such      *)
(* segment.  Two awaits with no statement between them are one suspension. *)
(***************************************************************************)
EXTENDS Integers, Sequences, FiniteSets, TLC

\* ------------------------------------------------------------------ bounds
MaxCalls == 3
\* addSocket calls suspended at an await at the same time
MaxPending == 2
\* sockets that lose their connection
MaxDisconnected == 1
\* payloads the endpoints publish
MaxPublishes == 2
\* listeners that others register on one socket for one event name
MaxForeign == 1
\* addIoMultiIo calls on the Client
MaxAdds == 2
\* createTables and import calls on the Client
MaxOps == 2
\* tearDown calls on the Client
MaxTearDowns == 2
\* connect calls on the SocketIoBridge
MaxConnects == 2
\* events the SocketIoBridge emits
MaxEmits == 2
MaxEvents == 2

\* ------------------------------------------------------------ value spaces
Variants == {"relay", "perClient", "store"}
\* the socket objects a caller can pass, in the order callers first use them
SocketOrder == <<"s1", "s2", "s3">>

Sockets == {SocketOrder[k] : k \in DOMAIN SocketOrder}
Refs == {"r1"}
\* the value of a property that is not there (payload.r, payload.__origin)
Undefined == "undefined"
\* no identity: the __clientId / __relayId of a socket never passed to
\* addSocket, the __origin of an unstamped payload, the key of an array slot
NoId == <<>>
NoScope == <<"none">>

VARIABLES
  variant,          \* which Server class this execution runs
  clients,          \* the registry: _sockets (array) or _clients (Map), in insertion order
  sockId,           \* the property __relayId / __clientId of every socket object
  listeners,        \* the listeners registered on the route, per socket, in registration order
  multicastedRefs,  \* the seen-set _multicastedRefs / _broadcastedRefs
  calls,            \* the addSocket calls started so far, each with its position and locals
  ios,              \* store: the IoMultiIo list _ios
  ioMulti,          \* store: the current IoMulti (the call that created it, 0 = constructor)
  ioServer,         \* store: the current IoServer
  attached,         \* the IoServers each socket was handed to by IoServer.addSocket
  last,             \* the last event on the route: where it arrived, its payload, the registry
                    \* size and the listeners that ran, and what the relay emitted for it
  isOpen,           \* _localIo.isOpen when the constructor runs
  node,             \* the Server object: under construction, built, or the constructor threw
  base,             \* the BaseNode part: whether _localDb is set, and the outcomes of
                    \* createTables and import
  disconnected,     \* the sockets the transport has disconnected
  sent,             \* the messages the endpoints put on the route, in the order they were sent
  emitted,          \* per socket, the copies the relay passed to socket.emit, in emit order
  got,              \* per socket, how many of those copies its endpoint has received
  foreign,          \* per socket, the listeners the relay did not install: on the route, on
                    \* other event names, and how often others called on(route, ...)
  client,           \* a Client: its fields and its addIoMultiIo calls
  bridge            \* a SocketIoBridge, the socket it wraps, and the acknowledgements

\* what the relay does not write: the transport and the endpoints behind it
envVars == <<isOpen, node, base, disconnected, sent, emitted, got>>

\* the endpoint side: client.ts
endpointVars == <<client, bridge>>

vars == <<variant, clients, sockId, listeners, multicastedRefs, calls, ios,
          ioMulti, ioServer, attached, last, envVars, foreign, endpointVars>>

\* ------------------------------------------------------------------ helpers
SocketsOf(reg) == {reg[i].socket : i \in DOMAIN reg}

DedupVariant == variant \in {"perClient", "store"}

\* --------------------------------------------------------------- identities
\* Math.random().toString(36).slice(2): a value that differs from call to
\* call.  The model draws the suffix that no earlier call drew.
FreshSuffixes == {Len(calls) + 1}

\* `socket_${this._sockets.length}_${random}` / `client_${this._clients.size}_${random}`:
\* the pair of the counter and the random suffix
RelayId(size, rnd) == <<size, rnd>>

\* an identity made of the counter alone
ClientIdNoSuffix(size, rnd) == <<size, 0>>

ClientId(size, rnd) == <<size, rnd>>

Counter(id) == id[1]

\* ----------------------------------------------------------------- registry
\* Map.prototype.set: a new key is appended, an existing key keeps its
\* position and gets the new value
MapSet(reg, key, val) ==
  IF \E i \in DOMAIN reg : reg[i].key = key
    THEN [i \in DOMAIN reg |-> IF reg[i].key = key THEN val ELSE reg[i]]
    ELSE Append(reg, val)

Entry(key, socket, io, scope) ==
  [key |-> key, socket |-> socket, io |-> io, scope |-> scope]

\* the identity of a registry entry: the Map key, or in the array variant
\* the __relayId its socket carries
EntryId(e) == IF variant = "relay" THEN sockId[e.socket] ELSE e.key

\* ---------------------------------------------------------------- payloads
Payload(isNull, r, origin) == [null |-> isNull, r |-> r, origin |-> origin]

NullPayload == Payload(TRUE, Undefined, NoId)

\* the origin of the stamped copies that arrive: the relay only tests that
\* there is one, so one identity stands for all
Stamps == {ClientId(0, 1)}

\* the payloads that arrive: null, or an object with or without r and __origin
Payloads ==
  {NullPayload} \cup
  {Payload(FALSE, r, o) : r \in Refs \cup {Undefined}, o \in Stamps \cup {NoId}}

\* a forwarding that passes the payload on as it came
NoStamp(payload, id) == payload

\* Object.assign({}, payload, { __origin: id }); a null source adds nothing
Stamp(payload, id) ==
  IF payload.null THEN Payload(FALSE, Undefined, id)
  ELSE Payload(FALSE, payload.r, id)

\* `p && p.__origin`
HasOrigin(payload) == ~payload.null /\ payload.origin # NoId

\* ---------------------------------------------------------------- listeners
Listener(socketA) == [socketA |-> socketA]

\* the forwarding loop without the test socketA !== socketB
ForwardToAll(socketA, payload) ==
  [i \in 1..Len(clients) |->
     [to |-> clients[i].socket, payload |-> Stamp(payload, sockId[socketA])]]

\* a forwarding loop over the sockets that had a subscription installed by
\* the last rewiring
ForwardToSubscribed(socketA, payload) ==
  LET others == SelectSeq(clients, LAMBDA e : e.socket # socketA
                                              /\ listeners[e.socket] # <<>>)
  IN  [i \in 1..Len(others) |->
         [to |-> others[i].socket, payload |-> Stamp(payload, sockId[socketA])]]

\* the loop `for (socketB of registry) if (socketA !== socketB) socketB.emit(route, forwarded)`
\* it reads the registry and socketA's identity when the message arrives
ForwardToOthers(socketA, payload) ==
  LET others == SelectSeq(clients, LAMBDA e : e.socket # socketA)
  IN  [i \in 1..Len(others) |->
         [to |-> others[i].socket, payload |-> Stamp(payload, sockId[socketA])]]

Outcome(emits, seen, threw) == [emits |-> emits, seen |-> seen, threw |-> threw]

\* the callback of the relay variant without the test of __origin
BroadcastListenerNoStampTest(socketA, payload, seen) ==
  Outcome(ForwardToOthers(socketA, payload), seen, FALSE)

\* the callback of the relay variant
BroadcastListener(socketA, payload, seen) ==
  IF HasOrigin(payload) THEN Outcome(<<>>, seen, FALSE)
  ELSE Outcome(ForwardToOthers(socketA, payload), seen, FALSE)

\* the callback of the store and perClient variants remembering the last
\* referenceId only
MulticastRefsListenerLastOnly(socketA, payload, seen) ==
  IF payload.null THEN Outcome(<<>>, seen, TRUE)
  ELSE IF payload.r \in seen THEN Outcome(<<>>, seen, FALSE)
  ELSE IF HasOrigin(payload) THEN Outcome(<<>>, {payload.r}, FALSE)
  ELSE Outcome(ForwardToOthers(socketA, payload), {payload.r}, FALSE)

\* the callback of the store and perClient variants without the seen-set test
MulticastRefsListenerNoDedup(socketA, payload, seen) ==
  IF payload.null THEN Outcome(<<>>, seen, TRUE)
  ELSE IF HasOrigin(payload) THEN Outcome(<<>>, seen \cup {payload.r}, FALSE)
  ELSE Outcome(ForwardToOthers(socketA, payload), seen \cup {payload.r}, FALSE)

\* the callback of the store and perClient variants with the test of
\* __origin in front of the seen-set test
MulticastRefsListenerStampFirst(socketA, payload, seen) ==
  IF payload.null THEN Outcome(<<>>, seen, TRUE)
  ELSE IF HasOrigin(payload) THEN Outcome(<<>>, seen, FALSE)
  ELSE IF payload.r \in seen THEN Outcome(<<>>, seen, FALSE)
  ELSE Outcome(ForwardToOthers(socketA, payload), seen \cup {payload.r}, FALSE)

\* the callback of the store and perClient variants; payload.r of a null
\* payload raises a TypeError
MulticastRefsListener(socketA, payload, seen) ==
  IF payload.null THEN Outcome(<<>>, seen, TRUE)
  ELSE IF payload.r \in seen THEN Outcome(<<>>, seen, FALSE)
  ELSE IF HasOrigin(payload) THEN Outcome(<<>>, seen \cup {payload.r}, FALSE)
  ELSE Outcome(ForwardToOthers(socketA, payload), seen \cup {payload.r}, FALSE)

CallListener(l, payload, seen) ==
  IF variant = "relay" THEN BroadcastListener(l.socketA, payload, seen)
  ELSE MulticastRefsListener(l.socketA, payload, seen)

\* the event emitter calls the listeners of the route in registration
\* order; a listener that throws ends the dispatch
RECURSIVE RunListeners(_, _, _)
RunListeners(ls, payload, acc) ==
  IF ls = <<>> \/ acc.threw THEN acc
  ELSE LET o == CallListener(Head(ls), payload, acc.seen)
       IN  RunListeners(Tail(ls), payload,
                        Outcome(acc.emits \o o.emits, o.seen, o.threw))

\* what the relay does with a payload arriving on the route of socket s
Dispatch(s, payload) ==
  RunListeners(listeners[s], payload, Outcome(<<>>, multicastedRefs, FALSE))

\* a teardown that leaves the listeners in place
KeepListeners(ls, reg) == ls

\* socket.removeAllListeners(route) on every registered socket
RemoveAllListeners(ls, reg) ==
  [s \in Sockets |-> IF s \in SocketsOf(reg) THEN <<>> ELSE ls[s]]

\* the listeners on a socket that the relay did not install
NoForeign == [route |-> 0, other |-> 0, on |-> 0]

\* a teardown that removes the listeners of every event name
\* (socket.removeAllListeners() without an argument)
RemoveForeignEveryEvent(fs, reg) ==
  [s \in Sockets |-> IF s \in SocketsOf(reg)
                       THEN [fs[s] EXCEPT !.route = 0, !.other = 0]
                       ELSE fs[s]]

\* the same socket.removeAllListeners(route) for the listeners of others:
\* the emitter drops every listener of that event name, whoever registered
\* it, and no listener of another event name
RemoveForeign(fs, reg) ==
  [s \in Sockets |-> IF s \in SocketsOf(reg) THEN [fs[s] EXCEPT !.route = 0]
                       ELSE fs[s]]

\* socketA.on(route, callback) for every registry entry, in registry order
RECURSIVE InstallListeners(_, _)
InstallListeners(ls, reg) ==
  IF reg = <<>> THEN ls
  ELSE InstallListeners(
         [ls EXCEPT ![Head(reg).socket] = Append(@, Listener(Head(reg).socket))],
         Tail(reg))

\* a rewiring that subscribes the newest socket only
RewireNewest(ls, reg) ==
  InstallListeners(RemoveAllListeners(ls, reg), <<reg[Len(reg)]>>)

\* a rewiring that is suspended between the teardown and the
\* re-registration, so that others see the sockets without listeners
RewireSuspended(ls, reg) == RemoveAllListeners(ls, reg)

\* this._removeAllListeners(); this._broadcast() / this._multicastRefs()
Rewire(ls, reg) == InstallListeners(RemoveAllListeners(ls, reg), reg)

\* -------------------------------------------------------------------- calls
\* an addSocket call: its argument, the identity it made, where it is
\* suspended, and the locals of the loop it is in (i: entries the Map
\* iterator has yielded; cid, cio, others: clientId, client.io and
\* otherSockets of the iteration of _reInitIoServerMultiCasting)
Call(socket, id, pc) ==
  [socket |-> socket, id |-> id, pc |-> pc, i |-> 0, cid |-> NoId, cio |-> 0,
   others |-> <<>>]

\* the calls that are suspended at an await
InProgress == {c \in DOMAIN calls : calls[c].pc \notin {"done", "failed"}}

\* the calls whose promise was rejected
Failed == {c \in DOMAIN calls : calls[c].pc = "failed"}

Completed == {c \in DOMAIN calls : calls[c].pc = "done"}

UsedSockets == {calls[c].socket : c \in DOMAIN calls}

\* a socket no addSocket call was given yet (the sockets are
\* interchangeable, so it is the first unused one of SocketOrder)
NewSockets ==
  {SocketOrder[k] : k \in {j \in DOMAIN SocketOrder :
                              /\ SocketOrder[j] \notin UsedSockets
                              /\ \A h \in 1..(j - 1) : SocketOrder[h] \in UsedSockets}}

\* the sockets of a caller that also passes a socket it passed before
AnySockets == UsedSockets \cup NewSockets

\* ----------------------------------------------------------------- endpoint
\* a Client after its constructor: no Db, Connector, MultiEditManager or Io
\* (0), an empty _ios; no addIoMultiIo call, no createTables or import yet
\* live: the IoMultis that are open; parts: how many IoMultiIos the IoMulti
\* in _io was given; up: every Io of _ios is open; listening: the
\* Connectors that listen on the socket; mems: the MultiEditManagers that
\* were initialised and not torn down; downs, error: the tearDown calls
NoClient ==
  [db |-> 0, connector |-> 0, mem |-> 0, io |-> 0, live |-> {}, parts |-> 0,
   up |-> TRUE, ios |-> 0, adds |-> <<>>, ops |-> <<>>, listening |-> {},
   mems |-> {}, downs |-> 0, error |-> "none"]

\* no SocketIoBridge yet
NoBridge ==
  [kind |-> "none", connected |-> FALSE, connects |-> 0, raw |-> 0,
   threw |-> FALSE, wire |-> <<>>, reply |-> <<>>, replied |-> <<>>,
   acked |-> <<>>, emits |-> 0, asks |-> 0,
   subs |-> {}, wanted |-> {}, heard |-> <<>>,
   ret |-> [call |-> "none", value |-> "none"]]

\* --------------------------------------------------------------------- Init
NoEvent ==
  [at |-> "none", payload |-> NullPayload, after |-> NullPayload, size |-> 0,
   ran |-> 0, down |-> {}, emits |-> <<>>, threw |-> FALSE, known |-> FALSE]

LocalIo == [io |-> 0, dump |-> TRUE, read |-> TRUE, write |-> TRUE, priority |-> 1]

\* the field initialisers, before the constructor body runs
Fields ==
  /\ clients = <<>>
  /\ sockId = [s \in Sockets |-> NoId]
  /\ listeners = [s \in Sockets |-> <<>>]
  /\ multicastedRefs = {}
  /\ calls = <<>>
  /\ ioMulti = 0
  /\ ioServer = [by |-> 0, multi |-> 0]
  /\ attached = [s \in Sockets |-> {}]
  /\ last = NoEvent
  /\ disconnected = {}
  /\ sent = <<>>
  /\ emitted = [s \in Sockets |-> <<>>]
  /\ got = [s \in Sockets |-> 0]
  /\ foreign = [s \in Sockets |-> NoForeign]
  /\ client = NoClient
  /\ bridge = NoBridge

\* a Server built on an open local Io, as the tests build it
Init ==
  /\ variant \in Variants
  /\ isOpen = TRUE
  /\ node = "built"
  /\ base = [localDb |-> variant = "store", ops |-> <<>>]
  /\ ios = IF variant = "store" THEN <<LocalIo>> ELSE <<>>
  /\ Fields

\* ------------------------------------------------------------ construction
\* `new Server(route, localIo)` is about to run; the relay over _sockets
\* takes no local Io
InitNew ==
  /\ variant \in Variants
  /\ isOpen \in (IF variant = "relay" THEN {TRUE} ELSE BOOLEAN)
  /\ node = "new"
  /\ base = [localDb |-> FALSE, ops |-> <<>>]
  /\ ios = <<>>
  /\ Fields

\* a constructor of BaseNode that does not look at isOpen
BaseNodeConstructorNoTest(open) == "built"

\* BaseNode.constructor: `if (!_localIo.isOpen) throw new Error(...)`
BaseNodeConstructor(open) == IF ~open THEN "threw" ELSE "built"

\* a constructor of BaseNode that leaves _localDb undefined
BaseNodeLocalDbUnset(open) == FALSE

\* BaseNode.constructor: `this._localDb = new Db(this._localIo)` is reached
\* when the test of isOpen did not throw
BaseNodeLocalDb(open) == open

\* the constructor of the class: only the store-backed Server extends
\* BaseNode, and it calls super(_localIo) first
Constructor ==
  /\ node = "new"
  /\ node' = IF variant = "store" THEN BaseNodeConstructor(isOpen) ELSE "built"
  /\ base' = IF variant = "store"
               THEN [base EXCEPT !.localDb = BaseNodeLocalDb(isOpen)] ELSE base
  /\ ios' = IF variant = "store" /\ node' = "built" THEN <<LocalIo>> ELSE ios
  /\ UNCHANGED <<foreign, endpointVars, variant, clients, sockId, listeners, multicastedRefs, calls,
                 ioMulti, ioServer, attached, last, isOpen, disconnected, sent,
                 emitted, got>>

\* `if (!this._localDb) throw new Error('Local Db not initialized')`
RequireLocalDb(db) == IF ~db THEN "Local Db not initialized" ELSE "ok"

\* BaseNode.createTables / BaseNode.import on a constructed store-backed
\* Server: the test of _localDb, then the work in the Db
NodeOperation(name) ==
  /\ variant = "store"
  /\ node = "built"
  /\ Len(base.ops) < MaxOps
  /\ base' = [base EXCEPT !.ops = Append(@, [op |-> name,
                                             result |-> RequireLocalDb(base.localDb)])]
  /\ UNCHANGED <<foreign, endpointVars, variant, clients, sockId, listeners,
                 multicastedRefs, calls, ios, ioMulti, ioServer, attached, last,
                 isOpen, node, disconnected, sent, emitted, got>>

\* ------------------------------------------------------ the relay variant
\* Server.addSocket of the synchronous relay: one uninterrupted task
AddSocket(s) ==
  /\ variant = "relay"
  /\ node = "built"
  /\ Len(calls) < MaxCalls
  /\ \E rnd \in FreshSuffixes :
       LET relayId == RelayId(Len(clients), rnd)
           reg == Append(clients, Entry(NoId, s, 0, NoScope))
       IN  /\ sockId' = [sockId EXCEPT ![s] = relayId]
           /\ clients' = reg
           /\ listeners' = Rewire(listeners, reg)
           /\ foreign' = RemoveForeign(foreign, reg)
           /\ calls' = Append(calls, Call(s, relayId, "done"))
  /\ UNCHANGED <<endpointVars, envVars, variant, multicastedRefs, ios, ioMulti, ioServer, attached, last>>

\* ------------------------------------------------------ the store variant
\* a peer source that takes writes
PeerIoWritable(c) == [io |-> c, dump |-> FALSE, read |-> TRUE, write |-> TRUE, priority |-> 2]

\* the IoMultiIo that addSocket pushes for the IoPeer of call c
PeerIo(c) == [io |-> c, dump |-> FALSE, read |-> TRUE, write |-> FALSE, priority |-> 2]

\* addSocket up to `await ioPeer.init()`
StoreAddSocket(s) ==
  /\ variant = "store"
  /\ node = "built"
  /\ Len(calls) < MaxCalls
  /\ Cardinality(InProgress) < MaxPending
  /\ \E rnd \in FreshSuffixes :
       LET clientId == ClientId(Len(clients), rnd)
       IN  /\ sockId' = [sockId EXCEPT ![s] = clientId]
           /\ calls' = Append(calls, Call(s, clientId, "peerInit"))
  /\ UNCHANGED <<foreign, endpointVars, envVars, variant, clients, listeners, multicastedRefs, ios, ioMulti,
                 ioServer, attached, last>>

\* the peer is ready: push it to _ios, recreate the IoMulti, `await this._ioMulti.init()`
StorePeerReady(c) ==
  /\ variant = "store"
  /\ c \in DOMAIN calls
  /\ calls[c].pc = "peerInit"
  /\ ios' = Append(ios, PeerIo(c))
  /\ ioMulti' = c
  /\ calls' = [calls EXCEPT ![c].pc = "multiInit"]
  /\ UNCHANGED <<foreign, endpointVars, envVars, variant, clients, sockId, listeners, multicastedRefs, ioServer,
                 attached, last>>

\* the IoMulti is ready: store the client, recreate the IoServer and hand
\* it the first socket of _clients, `await this._ioServer.addSocket(socket)`
StoreMultiReady(c) ==
  /\ variant = "store"
  /\ c \in DOMAIN calls
  /\ calls[c].pc = "multiInit"
  /\ LET reg == MapSet(clients, calls[c].id,
                       Entry(calls[c].id, calls[c].socket, c, NoScope))
     IN  /\ clients' = reg
         /\ ioServer' = [by |-> c, multi |-> ioMulti]
         /\ attached' = [attached EXCEPT ![reg[1].socket] = @ \cup {c}]
  /\ calls' = [calls EXCEPT ![c].pc = "attach", ![c].i = 1]
  /\ UNCHANGED <<foreign, endpointVars, envVars, variant, sockId, listeners, multicastedRefs, ios, ioMulti, last>>

\* the socket is attached: hand the next entry of _clients to the IoServer
\* that this._ioServer names now, or, with no entry left, rewire and return
StoreAttachNext(c) ==
  /\ variant = "store"
  /\ c \in DOMAIN calls
  /\ calls[c].pc = "attach"
  /\ IF calls[c].i < Len(clients)
       THEN /\ attached' = [attached EXCEPT ![clients[calls[c].i + 1].socket] =
                                               @ \cup {ioServer.by}]
            /\ calls' = [calls EXCEPT ![c].i = @ + 1]
            /\ UNCHANGED <<listeners, foreign>>
       ELSE /\ listeners' = Rewire(listeners, clients)
            /\ foreign' = RemoveForeign(foreign, clients)
            /\ calls' = [calls EXCEPT ![c].pc = "done"]
            /\ UNCHANGED attached
  /\ UNCHANGED <<endpointVars, envVars, variant, clients, sockId, multicastedRefs, ios, ioMulti, ioServer, last>>

\* the awaited promise of a suspended addSocket is rejected (ioPeer.init,
\* this._ioMulti.init or this._ioServer.addSocket fails): no try/catch
\* surrounds the awaits, so the call ends there and what it wrote stays
StoreFail(c) ==
  /\ variant = "store"
  /\ c \in DOMAIN calls
  /\ calls[c].pc \in {"peerInit", "multiInit", "attach"}
  /\ calls' = [calls EXCEPT ![c].pc = "failed"]
  /\ UNCHANGED <<foreign, endpointVars, envVars, variant, clients, sockId, listeners, multicastedRefs, ios,
                 ioMulti, ioServer, attached, last>>

\* -------------------------------------------------- the perClient variant
\* an otherSockets that does not skip the client's own socket
OtherSocketsWithOwn(reg, ids, clientId) ==
  [k \in 1..Len(reg) |-> reg[k].socket]

\* otherSockets of _reInitIoServerMultiCasting: the sockets of the entries
\* whose socket does not carry clientId, in registry order
OtherSockets(reg, ids, clientId) ==
  LET rest == SelectSeq(reg, LAMBDA e : ids[e.socket] # clientId)
  IN  [k \in 1..Len(rest) |-> rest[k].socket]

\* the start of the iteration of _reInitIoServerMultiCasting on entry i, up
\* to its first await: an IoServer the client has is detached and deleted
DropScope(reg, i) == [reg EXCEPT ![i].scope = NoScope]

\* the locals of that iteration
ReInitLocals(call, reg, ids, i) ==
  [call EXCEPT !.pc = "reInit", !.i = i, !.cid = ids[reg[i].socket],
               !.cio = reg[i].io,
               !.others = OtherSockets(reg, ids, ids[reg[i].socket])]

\* addSocket up to `await ioPeer.init()`
PerClientAddSocket(s) ==
  /\ variant = "perClient"
  /\ node = "built"
  /\ Len(calls) < MaxCalls
  /\ Cardinality(InProgress) < MaxPending
  /\ \E rnd \in FreshSuffixes :
       LET clientId == ClientId(Len(clients), rnd)
       IN  /\ sockId' = [sockId EXCEPT ![s] = clientId]
           /\ calls' = Append(calls, Call(s, clientId, "peerInit"))
  /\ UNCHANGED <<foreign, endpointVars, envVars, variant, clients, listeners, multicastedRefs, ios, ioMulti,
                 ioServer, attached, last>>

\* the peer is ready: hand the socket to the IoServer of the local Io, store
\* the client; with more than one client enter _reInitIoServerMultiCasting,
\* else rewire and return
PerClientPeerReady(c) ==
  /\ variant = "perClient"
  /\ c \in DOMAIN calls
  /\ calls[c].pc = "peerInit"
  /\ attached' = [attached EXCEPT ![calls[c].socket] = @ \cup {0}]
  /\ LET reg == MapSet(clients, calls[c].id,
                       Entry(calls[c].id, calls[c].socket, c, NoScope))
     IN  IF Len(reg) > 1
           THEN /\ clients' = DropScope(reg, 1)
                /\ calls' = [calls EXCEPT ![c] = ReInitLocals(@, reg, sockId, 1)]
                /\ UNCHANGED <<listeners, foreign>>
           ELSE /\ clients' = reg
                /\ listeners' = Rewire(listeners, reg)
                /\ foreign' = RemoveForeign(foreign, reg)
                /\ calls' = [calls EXCEPT ![c].pc = "done"]
  /\ UNCHANGED <<endpointVars, envVars, variant, sockId, multicastedRefs, ios, ioMulti, ioServer, last>>

\* the IoServer of the iteration is built and has the client's socket: store
\* the client under clientId, then start the next iteration or leave the loop
PerClientReInitStep(c) ==
  /\ variant = "perClient"
  /\ c \in DOMAIN calls
  /\ calls[c].pc = "reInit"
  /\ LET call == calls[c]
         reg == MapSet(clients, call.cid,
                       Entry(call.cid, clients[call.i].socket, call.cio, call.others))
     IN  IF call.i < Len(reg)
           THEN /\ clients' = DropScope(reg, call.i + 1)
                /\ calls' = [calls EXCEPT ![c] = ReInitLocals(@, reg, sockId, call.i + 1)]
           ELSE /\ clients' = reg
                /\ calls' = [calls EXCEPT ![c].pc = "rewire"]
  /\ UNCHANGED <<foreign, endpointVars, envVars, variant, sockId, listeners, multicastedRefs, ios, ioMulti,
                 ioServer, attached, last>>

\* _reInitIoServerMultiCasting has returned: rewire and return
PerClientRewire(c) ==
  /\ variant = "perClient"
  /\ c \in DOMAIN calls
  /\ calls[c].pc = "rewire"
  /\ listeners' = Rewire(listeners, clients)
  /\ foreign' = RemoveForeign(foreign, clients)
  /\ calls' = [calls EXCEPT ![c].pc = "done"]
  /\ UNCHANGED <<endpointVars, envVars, variant, clients, sockId, multicastedRefs, ios, ioMulti,
                 ioServer, attached, last>>

\* ----------------------------------------------------------------- messages
\* an addSocket call with socket s has returned
Wired(s) == \E c \in Completed : calls[c].socket = s

\* a payload the relay takes for fresh: no origin stamp, and a referenceId
\* (payload.r) the seen-set does not hold
Fresh(payload) ==
  /\ ~payload.null
  /\ payload.origin = NoId
  /\ DedupVariant => payload.r \notin multicastedRefs

\* a callback that writes __origin into the payload it was handed
SourceStamped(socketA, payload, emits) ==
  IF emits = <<>> THEN payload ELSE emits[Len(emits)].payload

\* the payload object after the callback: Object.assign copies into the
\* new object {} and only reads its source
Source(socketA, payload, emits) == payload

\* the record of an event on the route of s: the payload, the payload object
\* afterwards, the registry size, the listeners that ran, the sockets that
\* were disconnected, the emits, whether the callback threw, and whether the
\* seen-set held the referenceId when the event came in
Event(s, payload, o) ==
  [at |-> s, payload |-> payload, after |-> Source(s, payload, o.emits),
   size |-> Len(clients), ran |-> Len(listeners[s]), down |-> disconnected,
   emits |-> o.emits, threw |-> o.threw,
   known |-> (~payload.null /\ payload.r \in multicastedRefs)]

\* a payload arrives on the route of socket s: the listeners on s run
Receive(s, payload) ==
  /\ listeners[s] # <<>>
  /\ LET o == Dispatch(s, payload)
     IN  /\ multicastedRefs' = o.seen
         /\ last' = Event(s, payload, o)
  /\ UNCHANGED <<foreign, endpointVars, envVars, variant, clients, sockId, listeners, calls, ios, ioMulti,
                 ioServer, attached>>

\* the callbacks when socketB.emit throws for the sockets in failing: no
\* try/catch surrounds the call, so the first such emit ends the loop and
\* the exception leaves the callback; the copies emitted before it are out
\* and the seen-set has the referenceId already
Interrupted(o, failing) ==
  LET bad == {i \in DOMAIN o.emits : o.emits[i].to \in failing}
  IN  IF bad = {} THEN o
      ELSE LET k == CHOOSE i \in bad : \A j \in bad : i <= j
           IN  Outcome(SubSeq(o.emits, 1, k - 1), o.seen, TRUE)

\* a payload arrives on the route of socket s while the emit of the
\* registered socket t throws
ReceiveEmitFails(s, payload, t) ==
  /\ listeners[s] # <<>>
  /\ t \in SocketsOf(clients)
  /\ LET o == Interrupted(Dispatch(s, payload), {t})
     IN  /\ multicastedRefs' = o.seen
         /\ last' = Event(s, payload, o)
  /\ UNCHANGED <<foreign, endpointVars, envVars, variant, clients, sockId, listeners, calls, ios, ioMulti,
                 ioServer, attached>>

\* someone other than the relay (another relay instance sharing the socket,
\* the Connector of the library, the application) registers a listener on
\* socket s, for the route or for another event name, before or after the
\* socket is passed to addSocket
ForeignOn(s, ev) ==
  /\ IF ev = "route"
       THEN /\ foreign[s].on < MaxForeign
            /\ foreign' = [foreign EXCEPT ![s].route = @ + 1, ![s].on = @ + 1]
       ELSE /\ foreign[s].other < MaxForeign
            /\ foreign' = [foreign EXCEPT ![s].other = @ + 1]
  /\ UNCHANGED <<endpointVars, envVars, variant, clients, sockId, listeners,
                 multicastedRefs, calls, ios, ioMulti, ioServer, attached, last>>

\* ------------------------------------------------------------------ Client
\* Client.addIoMultiIo up to its first await. The IoMultiIo is pushed; an
\* open IoMulti is closed, which closes the Ios under it, and the call
\* waits; else, if an Io of _ios is not open, the call waits for its init;
\* else nothing is awaited and `this._io = new IoMulti(this._ios)` runs in
\* the same task, up to `await this._io.init()`
ClientAddIoMultiIo(isOpen_) ==
  /\ Len(client.adds) < MaxAdds
  /\ LET c == Len(client.adds) + 1
         closes == client.io # 0 /\ client.io \in client.live
         waits == closes \/ ~client.up \/ ~isOpen_
     IN  client' =
           IF waits
             THEN [client EXCEPT !.ios = @ + 1,
                                 !.live = IF closes THEN @ \ {client.io} ELSE @,
                                 !.up = FALSE,
                                 !.adds = Append(@, "opening")]
             ELSE [client EXCEPT !.ios = @ + 1, !.io = c, !.parts = client.ios + 1,
                                 !.adds = Append(@, "init")]
  /\ UNCHANGED <<bridge, foreign, envVars, variant, clients, sockId, listeners,
                 multicastedRefs, calls, ios, ioMulti, ioServer, attached, last>>

\* the IoMulti is closed and the Ios are open again:
\* `this._io = new IoMulti(this._ios); await this._io.init()`
ClientIoMulti(c) ==
  /\ c \in DOMAIN client.adds
  /\ client.adds[c] = "opening"
  /\ client' = [client EXCEPT !.io = c, !.parts = client.ios, !.up = TRUE,
                              !.adds[c] = "init"]
  /\ UNCHANGED <<bridge, foreign, envVars, variant, clients, sockId, listeners,
                 multicastedRefs, calls, ios, ioMulti, ioServer, attached, last>>

\* the IoMulti this call created is open: the Db is cloned onto this._io or
\* created on it, a new Connector and a new MultiEditManager are created,
\* the Connector listens, the call returns
ClientReady(c) ==
  /\ c \in DOMAIN client.adds
  /\ client.adds[c] = "init"
  /\ client' = [client EXCEPT !.live = @ \cup {c}, !.db = client.io,
                              !.connector = c, !.listening = @ \cup {c},
                              !.mem = c, !.mems = @ \cup {c},
                              !.adds[c] = "done"]
  /\ UNCHANGED <<bridge, foreign, envVars, variant, clients, sockId, listeners,
                 multicastedRefs, calls, ios, ioMulti, ioServer, attached, last>>

\* a createTables / import that goes on to this._db.core without a test:
\* with no Db the property access raises a TypeError
RequireDbNoTest(db) == IF db = 0 THEN "TypeError" ELSE "none"

\* `if (!this._db) throw new Error('Db not initialized')`
RequireDb(db) == IF db = 0 THEN "Db not initialized" ELSE "none"

\* Client.createTables and Client.import: the test of _db, then calls on
\* this._db.core, which write no field of the Client
ClientOperation(name) ==
  /\ Len(client.ops) < MaxOps
  /\ client' = [client EXCEPT !.ops = Append(@, [op |-> name,
                                                 error |-> RequireDb(client.db)])]
  /\ UNCHANGED <<bridge, foreign, envVars, variant, clients, sockId, listeners,
                 multicastedRefs, calls, ios, ioMulti, ioServer, attached, last>>

\* a tearDown that calls this._connector.teardown() and this._mem.tearDown()
\* without the tests: on a Client without them the call raises a TypeError
TearDownNoTest(cl) ==
  LET closed == IF cl.io # 0 /\ cl.io \in cl.live
                  THEN [cl EXCEPT !.live = @ \ {cl.io}, !.up = FALSE] ELSE cl
  IN  IF cl.connector = 0 \/ cl.mem = 0 THEN [closed EXCEPT !.error = "TypeError"]
      ELSE [closed EXCEPT !.listening = @ \ {cl.connector},
                          !.mems = @ \ {cl.mem}]

\* the body of Client.tearDown: an open Io is closed, a Connector and a
\* MultiEditManager that are there are torn down; no field is unset
TearDown(cl) ==
  LET closed == IF cl.io # 0 /\ cl.io \in cl.live
                  THEN [cl EXCEPT !.live = @ \ {cl.io}, !.up = FALSE] ELSE cl
      down == IF cl.connector # 0
                THEN [closed EXCEPT !.listening = @ \ {cl.connector}] ELSE closed
  IN  IF cl.mem # 0 THEN [down EXCEPT !.mems = @ \ {cl.mem}] ELSE down

\* Client.tearDown, callable in every state
ClientTearDown ==
  /\ client.downs < MaxTearDowns
  /\ client' = [TearDown(client) EXCEPT !.downs = @ + 1]
  /\ UNCHANGED <<bridge, foreign, envVars, variant, clients, sockId, listeners,
                 multicastedRefs, calls, ios, ioMulti, ioServer, attached, last>>

\* ---------------------------------------------------------- SocketIoBridge
\* `new SocketIoBridge(socket)` on a socket.io server socket (connected when
\* created, no connect method) or a socket.io-client socket
BridgeConstructor(kind, conn) ==
  /\ bridge.kind = "none"
  /\ bridge' = [bridge EXCEPT !.kind = kind,
                              !.connected = IF kind = "server" THEN TRUE ELSE conn]
  /\ UNCHANGED <<client, foreign, envVars, variant, clients, sockId, listeners,
                 multicastedRefs, calls, ios, ioMulti, ioServer, attached, last>>

\* a connect that calls this._socket.connect() on every socket
HasConnectAlways(kind) == TRUE

\* `'connect' in this._socket && typeof this._socket.connect === 'function'`
HasConnect(kind) == kind = "client"

\* this._socket.connect(): the client socket starts to connect; on a socket
\* without the method the call raises a TypeError
RawConnect(b) ==
  IF b.kind = "client" THEN [b EXCEPT !.raw = @ + 1] ELSE [b EXCEPT !.threw = TRUE]

\* SocketIoBridge.connect
BridgeConnect ==
  /\ bridge.kind # "none"
  /\ bridge.connects < MaxConnects
  /\ LET b == [bridge EXCEPT !.connects = @ + 1]
     IN  bridge' = IF HasConnect(b.kind) THEN RawConnect(b) ELSE b
  /\ UNCHANGED <<client, foreign, envVars, variant, clients, sockId, listeners,
                 multicastedRefs, calls, ios, ioMulti, ioServer, attached, last>>

\* the client socket whose connect was called gets its connection
SocketConnects ==
  /\ bridge.kind = "client"
  /\ bridge.raw > 0
  /\ ~bridge.connected
  /\ bridge' = [bridge EXCEPT !.connected = TRUE]
  /\ UNCHANGED <<client, foreign, envVars, variant, clients, sockId, listeners,
                 multicastedRefs, calls, ios, ioMulti, ioServer, attached, last>>

\* SocketIoBridge.disconnect: this._socket.disconnect()
BridgeDisconnect ==
  /\ bridge.kind # "none"
  /\ bridge.connected
  /\ bridge' = [bridge EXCEPT !.connected = FALSE]
  /\ UNCHANGED <<client, foreign, envVars, variant, clients, sockId, listeners,
                 multicastedRefs, calls, ios, ioMulti, ioServer, attached, last>>

\* the event names and the listener functions of the caller
EventNames == {"route", "other"}
Listeners == {"l1", "l2"}

\* `return this` of on, emit, off and removeAllListeners: the bridge
This == "bridge"

\* a bridge that registers a function of its own that calls the listener
RegisteredWrapped(l) == [fn |-> l, wrapped |-> TRUE]

\* the function SocketIoBridge.on hands to the socket: `listener` itself
Registered(l) == [fn |-> l, wrapped |-> FALSE]

\* SocketIoBridge.on: `this._socket.on(eventName, listener); return this`;
\* a listener is registered for an event name at most once at a time
BridgeOn(ev, l) ==
  /\ bridge.kind # "none"
  /\ <<ev, l>> \notin bridge.wanted
  /\ bridge' = [bridge EXCEPT !.subs = @ \cup {[ev |-> ev, f |-> Registered(l)]},
                              !.wanted = @ \cup {<<ev, l>>},
                              !.ret = [call |-> "on", value |-> This]]
  /\ UNCHANGED <<client, foreign, envVars, variant, clients, sockId, listeners,
                 multicastedRefs, calls, ios, ioMulti, ioServer, attached, last>>

\* SocketIoBridge.off: `this._socket.off(eventName, listener); return this`:
\* the socket drops the registration for eventName whose function is the
\* function it is given
BridgeOff(ev, l) ==
  /\ bridge.kind # "none"
  /\ bridge' = [bridge EXCEPT
                  !.subs = {r \in @ : ~(r.ev = ev /\ r.f = [fn |-> l, wrapped |-> FALSE])},
                  !.wanted = @ \ {<<ev, l>>},
                  !.ret = [call |-> "off", value |-> This]]
  /\ UNCHANGED <<client, foreign, envVars, variant, clients, sockId, listeners,
                 multicastedRefs, calls, ios, ioMulti, ioServer, attached, last>>

\* SocketIoBridge.removeAllListeners: `this._socket.removeAllListeners(
\* eventName); return this`: the socket drops every registration for
\* eventName, and every registration when eventName is undefined
BridgeRemoveAllListeners(ev) ==
  /\ bridge.kind # "none"
  /\ bridge' = [bridge EXCEPT
                  !.subs = IF ev = "undefined" THEN {} ELSE {r \in @ : r.ev # ev},
                  !.wanted = IF ev = "undefined" THEN {} ELSE {w \in @ : w[1] # ev},
                  !.ret = [call |-> "removeAllListeners", value |-> This]]
  /\ UNCHANGED <<client, foreign, envVars, variant, clients, sockId, listeners,
                 multicastedRefs, calls, ios, ioMulti, ioServer, attached, last>>

\* an event of name ev arrives on the underlying socket, which calls every
\* function registered for ev; a registered function calls its listener
SocketEvent(ev) ==
  /\ bridge.kind # "none"
  /\ Len(bridge.heard) < MaxEvents
  /\ bridge' = [bridge EXCEPT
                  !.heard = Append(@, [ev |-> ev,
                                       fns |-> {r.f.fn : r \in {q \in bridge.subs : q.ev = ev}}])]
  /\ UNCHANGED <<client, foreign, envVars, variant, clients, sockId, listeners,
                 multicastedRefs, calls, ios, ioMulti, ioServer, attached, last>>

\* the argument lists of emit: the data, with or without a trailing
\* acknowledgement callback
EmitArguments == {<<"data">>, <<"data", "ack">>}

\* an emit that hands the first argument on and drops the rest
EmitArgsDataOnly(args) == <<args[1]>>

\* SocketIoBridge.emit: `this._socket.emit(eventName, ...args)` hands every
\* argument on, in order
EmitArgs(args) == args

\* bridge.emit(event, data) or bridge.emit(event, data, callback): the
\* arguments that reach the socket go on the wire
BridgeEmit(args) ==
  /\ bridge.kind # "none"
  /\ bridge.connected
  /\ bridge.emits < MaxEmits
  /\ bridge.wire = <<>>
  /\ bridge.reply = <<>>
  /\ bridge' = [bridge EXCEPT !.emits = @ + 1,
                              !.asks = IF args[Len(args)] = "ack" THEN @ + 1 ELSE @,
                              !.wire = EmitArgs(args),
                              !.ret = [call |-> "emit", value |-> This]]
  /\ UNCHANGED <<client, foreign, envVars, variant, clients, sockId, listeners,
                 multicastedRefs, calls, ios, ioMulti, ioServer, attached, last>>

\* the event reaches the peer, whose handler `(data, callback) =>
\* callback(v)` was registered through SocketIoBridge.on, which hands the
\* listener to the socket as it is: the socket gives the handler a callback
\* if the emit ended with one, and the handler calls it with the one value
\* v; without one the call of `callback` raises and nothing is sent back
PeerHandler(v) ==
  /\ bridge.wire # <<>>
  /\ bridge' = IF bridge.wire[Len(bridge.wire)] = "ack"
                 THEN [bridge EXCEPT !.wire = <<>>, !.reply = <<v>>,
                                     !.replied = Append(@, v)]
                 ELSE [bridge EXCEPT !.wire = <<>>]
  /\ UNCHANGED <<client, foreign, envVars, variant, clients, sockId, listeners,
                 multicastedRefs, calls, ios, ioMulti, ioServer, attached, last>>

\* the acknowledgement reaches the emitter: the socket calls the callback
\* that emit was given with the values the handler passed
AckArrives ==
  /\ bridge.reply # <<>>
  /\ bridge' = [bridge EXCEPT !.reply = <<>>, !.acked = Append(@, bridge.reply)]
  /\ UNCHANGED <<client, foreign, envVars, variant, clients, sockId, listeners,
                 multicastedRefs, calls, ios, ioMulti, ioServer, attached, last>>

\* -------------------------------------------------------------- transport
\* a relay that unregisters the endpoint of a socket that disconnects
DisconnectUnregisters(s) ==
  /\ s \in SocketsOf(clients)
  /\ s \notin disconnected
  /\ Cardinality(disconnected) < MaxDisconnected
  /\ disconnected' = disconnected \cup {s}
  /\ clients' = SelectSeq(clients, LAMBDA e : e.socket # s)
  /\ UNCHANGED <<foreign, endpointVars, variant, sockId, listeners, multicastedRefs, calls, ios,
                 ioMulti, ioServer, attached, last, isOpen, node, base, sent, emitted, got>>

\* the transport loses the connection of a registered socket; the Server
\* subscribes to no disconnect event and reads neither socket.connected nor
\* socket.disconnected
Disconnect(s) ==
  /\ s \in SocketsOf(clients)
  /\ s \notin disconnected
  /\ Cardinality(disconnected) < MaxDisconnected
  /\ disconnected' = disconnected \cup {s}
  /\ UNCHANGED <<foreign, endpointVars, variant, clients, sockId, listeners, multicastedRefs, calls, ios,
                 ioMulti, ioServer, attached, last, isOpen, node, base, sent, emitted, got>>

\* what an endpoint publishes: an object without __origin, with or without r
Publishes == {p \in Payloads : ~p.null /\ p.origin = NoId}

\* a message on its way to the relay: who sent it, what, the publish it
\* descends from, and once it has arrived its place in the order of
\* arrival, the registry size, the listeners that ran and whether the relay
\* took it for fresh
Message(s, payload, n) ==
  [from |-> s, payload |-> payload, of |-> n, seq |-> 0, size |-> 0, ran |-> 0,
   fresh |-> FALSE]

Arrived == {n \in DOMAIN sent : sent[n].seq > 0}

Originals == {n \in DOMAIN sent : sent[n].of = n}

\* the endpoint behind socket s publishes a payload on the route
\* (socket.emit(route.flat, payload) on the client side of the transport)
Publish(s, payload) ==
  /\ Wired(s)
  /\ Cardinality(Originals) < MaxPublishes
  /\ sent' = Append(sent, Message(s, payload, Len(sent) + 1))
  /\ UNCHANGED <<foreign, endpointVars, variant, clients, sockId, listeners, multicastedRefs, calls, ios,
                 ioMulti, ioServer, attached, last, isOpen, node, base, disconnected,
                 emitted, got>>

\* a relay whose emit puts the copy in front of the copies not yet received
EmitFirst(log, emits, n) ==
  [t \in Sockets |->
     LET mine == SelectSeq(emits, LAMBDA e : e.to = t)
     IN  SubSeq(log[t], 1, got[t])
           \o [i \in 1..Len(mine) |-> [payload |-> mine[i].payload, of |-> n]]
           \o SubSeq(log[t], got[t] + 1, Len(log[t]))]

\* socketB.emit(route, forwarded): the copies go out on the sockets in the
\* order of the calls
Emit(log, emits, n) ==
  [t \in Sockets |->
     LET mine == SelectSeq(emits, LAMBDA e : e.to = t)
     IN  log[t] \o [i \in 1..Len(mine) |-> [payload |-> mine[i].payload, of |-> n]]]

\* the transport hands message n to the relay: the route listeners of its
\* socket run; the transport keeps the order of the messages of one socket
Arrive(n) ==
  /\ n \in DOMAIN sent
  /\ sent[n].seq = 0
  /\ \A m \in 1..(n - 1) : sent[m].from = sent[n].from => sent[m].seq > 0
  /\ LET s == sent[n].from
         payload == sent[n].payload
         o == Dispatch(s, payload)
     IN  /\ multicastedRefs' = o.seen
         /\ emitted' = Emit(emitted, o.emits, sent[n].of)
         /\ sent' = [sent EXCEPT ![n].seq = Cardinality(Arrived) + 1,
                                 ![n].size = Len(clients),
                                 ![n].ran = Len(listeners[s]),
                                 ![n].fresh = Fresh(payload)]
  /\ UNCHANGED <<foreign, endpointVars, variant, clients, sockId, listeners, calls, ios, ioMulti,
                 ioServer, attached, last, isOpen, node, base, disconnected, got>>

\* the transport hands the next copy emitted on socket t to the endpoint
\* behind it: its route listener is called once; an endpoint may send the
\* copy, stamp included, back to the relay
Deliver(t, echo) ==
  /\ got[t] < Len(emitted[t])
  /\ got' = [got EXCEPT ![t] = @ + 1]
  /\ LET copy == emitted[t][got[t] + 1]
     IN  sent' = IF echo THEN Append(sent, Message(t, copy.payload, copy.of))
                 ELSE sent
  /\ UNCHANGED <<foreign, endpointVars, variant, clients, sockId, listeners, multicastedRefs, calls, ios,
                 ioMulti, ioServer, attached, last, isOpen, node, base, disconnected,
                 emitted>>

\* --------------------------------------------------------------------- Next
Next ==
  \/ \E s \in NewSockets : AddSocket(s)
  \/ \E s \in NewSockets : StoreAddSocket(s)
  \/ \E c \in DOMAIN calls : StorePeerReady(c)
  \/ \E c \in DOMAIN calls : StoreMultiReady(c)
  \/ \E c \in DOMAIN calls : StoreAttachNext(c)
  \/ \E s \in NewSockets : PerClientAddSocket(s)
  \/ \E c \in DOMAIN calls : PerClientPeerReady(c)
  \/ \E c \in DOMAIN calls : PerClientReInitStep(c)
  \/ \E c \in DOMAIN calls : PerClientRewire(c)
  \/ \E s \in Sockets : \E payload \in Payloads : Receive(s, payload)

\* every caller passes each socket once
Spec == Init /\ [][Next]_vars

NextReuse ==
  \/ \E s \in AnySockets : AddSocket(s)
  \/ \E s \in AnySockets : StoreAddSocket(s)
  \/ \E c \in DOMAIN calls : StorePeerReady(c)
  \/ \E c \in DOMAIN calls : StoreMultiReady(c)
  \/ \E c \in DOMAIN calls : StoreAttachNext(c)
  \/ \E s \in AnySockets : PerClientAddSocket(s)
  \/ \E c \in DOMAIN calls : PerClientPeerReady(c)
  \/ \E c \in DOMAIN calls : PerClientReInitStep(c)
  \/ \E c \in DOMAIN calls : PerClientRewire(c)

\* callers may pass a socket that is registered already
SpecReuse == Init /\ [][NextReuse]_vars

NextDisconnect ==
  \/ \E s \in NewSockets : AddSocket(s)
  \/ \E s \in NewSockets : StoreAddSocket(s)
  \/ \E c \in DOMAIN calls : StorePeerReady(c)
  \/ \E c \in DOMAIN calls : StoreMultiReady(c)
  \/ \E c \in DOMAIN calls : StoreAttachNext(c)
  \/ \E s \in NewSockets : PerClientAddSocket(s)
  \/ \E c \in DOMAIN calls : PerClientPeerReady(c)
  \/ \E c \in DOMAIN calls : PerClientReInitStep(c)
  \/ \E c \in DOMAIN calls : PerClientRewire(c)
  \/ \E s \in Sockets : \E payload \in Publishes : Receive(s, payload)
  \/ \E s \in Sockets : Disconnect(s)

\* the sockets may lose their connection at any time
SpecDisconnect == Init /\ [][NextDisconnect]_vars

\* the mesh is complete before the traffic starts
Settled == InProgress = {} /\ sent = <<>>

NextMesh ==
  \/ \E s \in NewSockets : Settled /\ AddSocket(s)
  \/ \E s \in NewSockets : Settled /\ StoreAddSocket(s)
  \/ \E c \in DOMAIN calls : StorePeerReady(c)
  \/ \E c \in DOMAIN calls : StoreMultiReady(c)
  \/ \E c \in DOMAIN calls : StoreAttachNext(c)
  \/ \E s \in NewSockets : Settled /\ PerClientAddSocket(s)
  \/ \E c \in DOMAIN calls : PerClientPeerReady(c)
  \/ \E c \in DOMAIN calls : PerClientReInitStep(c)
  \/ \E c \in DOMAIN calls : PerClientRewire(c)
  \/ \E s \in Sockets : \E payload \in Publishes :
       InProgress = {} /\ Publish(s, payload)
  \/ \E n \in DOMAIN sent : Arrive(n)
  \/ \E t \in Sockets : \E echo \in BOOLEAN : Deliver(t, echo)

\* a mesh of one, two or three endpoints, joined one after the other; then
\* publishes travel to the relay, copies travel to the endpoints, and the
\* endpoints may send the copies back
SpecMesh == Init /\ [][NextMesh]_vars

\* the transport delivers what it carries, and the event loop runs the
\* listener of every event that has come in
FairMesh ==
  /\ SpecMesh
  /\ WF_vars(\E n \in DOMAIN sent : Arrive(n))
  /\ WF_vars(\E t \in Sockets : \E echo \in BOOLEAN : Deliver(t, echo))

NextOrder ==
  \/ \E s \in NewSockets : AddSocket(s)
  \/ \E s \in NewSockets : StoreAddSocket(s)
  \/ \E c \in DOMAIN calls : StorePeerReady(c)
  \/ \E c \in DOMAIN calls : StoreMultiReady(c)
  \/ \E c \in DOMAIN calls : StoreAttachNext(c)
  \/ \E s \in NewSockets : PerClientAddSocket(s)
  \/ \E c \in DOMAIN calls : PerClientPeerReady(c)
  \/ \E c \in DOMAIN calls : PerClientReInitStep(c)
  \/ \E c \in DOMAIN calls : PerClientRewire(c)
  \/ \E s \in Sockets : \E payload \in Publishes : Publish(s, payload)
  \/ \E n \in DOMAIN sent : Arrive(n)
  \/ \E t \in Sockets : Deliver(t, FALSE)

\* endpoints publish while others join, calls overlapping; no copy is sent back
SpecOrder == Init /\ [][NextOrder]_vars

NextFaulty ==
  \/ \E s \in NewSockets : AddSocket(s)
  \/ \E s \in NewSockets : StoreAddSocket(s)
  \/ \E c \in DOMAIN calls : StorePeerReady(c)
  \/ \E c \in DOMAIN calls : StoreMultiReady(c)
  \/ \E c \in DOMAIN calls : StoreAttachNext(c)
  \/ \E s \in NewSockets : PerClientAddSocket(s)
  \/ \E c \in DOMAIN calls : PerClientPeerReady(c)
  \/ \E c \in DOMAIN calls : PerClientReInitStep(c)
  \/ \E c \in DOMAIN calls : PerClientRewire(c)
  \/ \E s \in Sockets : \E payload \in Publishes : Receive(s, payload)
  \/ \E s, t \in Sockets : \E payload \in Publishes : ReceiveEmitFails(s, payload, t)

\* sockets whose emit may throw
SpecFaulty == Init /\ [][NextFaulty]_vars

NextConstruct ==
  \/ Constructor
  \/ \E name \in {"createTables", "import"} : NodeOperation(name)
  \/ \E s \in NewSockets : AddSocket(s)
  \/ \E s \in NewSockets : StoreAddSocket(s)
  \/ \E c \in DOMAIN calls : StorePeerReady(c)
  \/ \E c \in DOMAIN calls : StoreMultiReady(c)
  \/ \E c \in DOMAIN calls : StoreAttachNext(c)
  \/ \E s \in NewSockets : PerClientAddSocket(s)
  \/ \E c \in DOMAIN calls : PerClientPeerReady(c)
  \/ \E c \in DOMAIN calls : PerClientReInitStep(c)
  \/ \E c \in DOMAIN calls : PerClientRewire(c)

\* from `new Server(...)` on, the local Io open or not
SpecConstruct == InitNew /\ [][NextConstruct]_vars

NextSequential ==
  \/ \E s \in NewSockets : InProgress = {} /\ AddSocket(s)
  \/ \E s \in NewSockets : InProgress = {} /\ StoreAddSocket(s)
  \/ \E c \in DOMAIN calls : StorePeerReady(c)
  \/ \E c \in DOMAIN calls : StoreMultiReady(c)
  \/ \E c \in DOMAIN calls : StoreAttachNext(c)
  \/ \E s \in NewSockets : InProgress = {} /\ PerClientAddSocket(s)
  \/ \E c \in DOMAIN calls : PerClientPeerReady(c)
  \/ \E c \in DOMAIN calls : PerClientReInitStep(c)
  \/ \E c \in DOMAIN calls : PerClientRewire(c)
  \/ \E s \in Sockets : \E payload \in Payloads : Receive(s, payload)

\* the caller awaits every addSocket before the next one, as in
\* `await server.addSocket(a); await server.addSocket(b)`; messages arrive
\* at any time
SpecSequential == Init /\ [][NextSequential]_vars

NextFailing ==
  \/ \E s \in NewSockets : AddSocket(s)
  \/ \E s \in NewSockets : StoreAddSocket(s)
  \/ \E c \in DOMAIN calls : StorePeerReady(c)
  \/ \E c \in DOMAIN calls : StoreMultiReady(c)
  \/ \E c \in DOMAIN calls : StoreAttachNext(c)
  \/ \E c \in DOMAIN calls : StoreFail(c)
  \/ \E s \in NewSockets : PerClientAddSocket(s)
  \/ \E c \in DOMAIN calls : PerClientPeerReady(c)
  \/ \E c \in DOMAIN calls : PerClientReInitStep(c)
  \/ \E c \in DOMAIN calls : PerClientRewire(c)
  \/ \E s \in Sockets : \E payload \in Publishes : Receive(s, payload)

\* the awaited steps of the store-backed addSocket may fail
SpecFailing == Init /\ [][NextFailing]_vars

NextShared ==
  \/ \E s \in NewSockets : AddSocket(s)
  \/ \E s \in NewSockets : StoreAddSocket(s)
  \/ \E c \in DOMAIN calls : StorePeerReady(c)
  \/ \E c \in DOMAIN calls : StoreMultiReady(c)
  \/ \E c \in DOMAIN calls : StoreAttachNext(c)
  \/ \E s \in NewSockets : PerClientAddSocket(s)
  \/ \E c \in DOMAIN calls : PerClientPeerReady(c)
  \/ \E c \in DOMAIN calls : PerClientReInitStep(c)
  \/ \E c \in DOMAIN calls : PerClientRewire(c)
  \/ \E s \in Sockets : \E ev \in {"route", "other"} : ForeignOn(s, ev)

\* the sockets carry listeners that the relay did not register
SpecShared == Init /\ [][NextShared]_vars

NextClient ==
  \/ \E isOpen_ \in BOOLEAN : ClientAddIoMultiIo(isOpen_)
  \/ \E c \in DOMAIN client.adds : ClientIoMulti(c)
  \/ \E c \in DOMAIN client.adds : ClientReady(c)
  \/ \E name \in {"createTables", "import"} : ClientOperation(name)
  \/ ClientTearDown

\* a Client whose caller may call createTables, import and tearDown at any
\* time, also while addIoMultiIo calls are suspended
SpecClient == Init /\ [][NextClient]_vars

NextBridge ==
  \/ \E kind \in {"client", "server"} : \E conn \in BOOLEAN :
       BridgeConstructor(kind, conn)
  \/ BridgeConnect
  \/ SocketConnects
  \/ BridgeDisconnect
  \/ \E args \in EmitArguments : BridgeEmit(args)
  \/ \E v \in BOOLEAN : PeerHandler(v)
  \/ AckArrives

\* a SocketIoBridge around a server or a client socket
SpecBridge == Init /\ [][NextBridge]_vars

NextListeners ==
  \/ \E kind \in {"client", "server"} : \E conn \in BOOLEAN :
       BridgeConstructor(kind, conn)
  \/ \E ev \in EventNames : \E l \in Listeners : BridgeOn(ev, l)
  \/ \E ev \in EventNames : \E l \in Listeners : BridgeOff(ev, l)
  \/ \E ev \in EventNames \cup {"undefined"} : BridgeRemoveAllListeners(ev)
  \/ \E ev \in EventNames : SocketEvent(ev)
  \/ \E args \in EmitArguments : BridgeEmit(args)

\* a SocketIoBridge whose caller registers and removes listeners while
\* events arrive on the socket
SpecListeners == Init /\ [][NextListeners]_vars

TypeOK ==
  /\ variant \in Variants
  /\ Len(calls) <= MaxCalls
  /\ \A c \in DOMAIN calls : calls[c].pc \in {"peerInit", "multiInit", "attach", "reInit", "rewire", "done", "failed"}
  /\ multicastedRefs \subseteq Refs \cup {Undefined}

\* =================================================================== claims
\* how many copies of one dispatch go to socket t
EmitsTo(o, t) == Cardinality({i \in DOMAIN o.emits : o.emits[i].to = t})

Targets(emits) == {emits[i].to : i \in DOMAIN emits}

\* C1: no self-delivery. Whatever payload arrives on the route of a socket,
\* in any state of any of the three relays, none of the copies the relay
\* emits for it goes to that socket; the same holds of the event last handled.
C1_NoSelfDelivery ==
  /\ \A s \in Sockets : \A p \in Payloads :
       \A i \in DOMAIN Dispatch(s, p).emits : Dispatch(s, p).emits[i].to # s
  /\ \A i \in DOMAIN last.emits : last.emits[i].to # last.at

\* a publish in a mesh of three was relayed to the two others
C1_Witness ==
  /\ Len(clients) = 3
  /\ last.at \in SocketsOf(clients)
  /\ Targets(last.emits) = SocketsOf(clients) \ {last.at}

\* C2: full fan-out. Once the addSocket call of socket E has returned, a
\* fresh payload arriving from E is emitted exactly once to every other
\* socket of the registry and to no one else.
C2_FullFanOut ==
  \A e \in Sockets : Wired(e) =>
    \A p \in Payloads : Fresh(p) =>
      \A t \in Sockets :
        EmitsTo(Dispatch(e, p), t) = IF t \in SocketsOf(clients) \ {e} THEN 1 ELSE 0

\* three calls have returned and a fresh publish went once to each of the two others
C2_Witness ==
  /\ Cardinality(Completed) = 3
  /\ Len(clients) = 3
  /\ last.at \in SocketsOf(clients)
  /\ last.payload.origin = NoId
  /\ ~last.payload.null
  /\ Len(last.emits) = 2
  /\ Targets(last.emits) = SocketsOf(clients) \ {last.at}

\* C3: no re-relay. A payload that carries an origin stamp causes no emit,
\* on whichever socket and in whichever state it arrives; the stamped event
\* last handled caused none.
C3_NoReRelay ==
  /\ \A s \in Sockets : \A p \in Payloads :
       HasOrigin(p) => Dispatch(s, p).emits = <<>>
  /\ HasOrigin(last.payload) => last.emits = <<>>

\* a stamped copy came back to a wired relay with two other endpoints
C3_Witness ==
  /\ HasOrigin(last.payload)
  /\ last.ran = 1
  /\ last.size = 3
  /\ last.emits = <<>>

\* the payload with neither origin stamp nor referenceId
PlainPayload == Payload(FALSE, Undefined, NoId)

\* C4: edge case policy. In the ref-dedup relays a payload with neither
\* origin stamp nor referenceId, arriving from a wired socket, is relayed to
\* every other registered socket, however many such payloads came before.
C4_PlainAlwaysRelayed ==
  DedupVariant =>
    \A e \in Sockets : Wired(e) =>
      Targets(Dispatch(e, PlainPayload).emits) = SocketsOf(clients) \ {e}

\* C5: reference-id idempotence. In the ref-dedup relays a payload whose
\* referenceId is in the seen-set causes no emit on any socket; every
\* handled payload leaves its referenceId in the seen-set, and the
\* referenceId of the payload last handled is in it.
C5_RefIdempotence ==
  DedupVariant =>
    /\ \A s \in Sockets : \A p \in Payloads :
         (~p.null /\ p.r \in Refs /\ p.r \in multicastedRefs)
           => Dispatch(s, p).emits = <<>>
    /\ \A s \in Sockets : \A p \in Payloads :
         (~p.null /\ listeners[s] # <<>>) => p.r \in Dispatch(s, p).seen
    /\ (last.ran > 0 /\ ~last.payload.null) => last.payload.r \in multicastedRefs

\* an unstamped payload with referenceId r1 reached a wired mesh of three
\* and was dropped: r1 had been handled before
C5_Witness ==
  /\ DedupVariant
  /\ last.size = 3
  /\ last.ran = 1
  /\ last.payload = Payload(FALSE, "r1", NoId)
  /\ last.emits = <<>>
  /\ "r1" \in multicastedRefs

\* C6: rewiring correctness. With every socket passed once, no socket ever
\* carries more than one route listener, an unregistered socket carries
\* none and a socket whose addSocket has returned carries exactly one; when
\* no call is suspended the listeners are as many as the registry entries
\* and a fresh publish yields one emit less than that.
C6_RewiringCorrect ==
  /\ \A s \in Sockets :
       /\ Len(listeners[s]) <= 1
       /\ s \notin SocketsOf(clients) => listeners[s] = <<>>
       /\ Wired(s) => Len(listeners[s]) = 1
  /\ InProgress = {} =>
       /\ \A s \in SocketsOf(clients) : Len(listeners[s]) = 1
       /\ \A s \in SocketsOf(clients) : \A p \in Payloads :
            Fresh(p) => Len(Dispatch(s, p).emits) = Len(clients) - 1

\* a third socket joined a mesh of two, and a fresh publish gave two emits
C6_Witness ==
  /\ InProgress = {}
  /\ Len(clients) = 3
  /\ \A s \in Sockets : Len(listeners[s]) = 1
  /\ last.ran = 1
  /\ last.size = 3
  /\ Fresh(Payload(FALSE, "r1", NoId))
  /\ Len(last.emits) = 2

\* C7: no duplicate subscriptions. After any sequence of addSocket calls,
\* also with a socket passed again, every socket carries at most one route
\* listener of the relay and no publish is emitted twice to one recipient.
C7_NoDuplicateSubscription ==
  /\ \A s \in Sockets : Len(listeners[s]) <= 1
  /\ \A s \in Sockets : \A p \in Payloads : \A t \in Sockets :
       EmitsTo(Dispatch(s, p), t) <= 1

\* C8: identity uniqueness. No two registry entries have the same
\* identity, and the socket of every entry carries the identity of its entry.
C8_IdentityUnique ==
  /\ \A i, j \in DOMAIN clients :
       i # j => EntryId(clients[i]) # EntryId(clients[j])
  /\ \A i \in DOMAIN clients : sockId[clients[i].socket] = EntryId(clients[i])

\* C9: one entry per call. The registry holds at least one entry per
\* returned call and at most one per started call, so when no call is
\* suspended it holds exactly as many entries as calls were made, however
\* the calls overlapped.
C9_OneEntryPerCall ==
  /\ Cardinality(Completed) <= Len(clients)
  /\ Len(clients) <= Len(calls)
  /\ InProgress = {} => Len(clients) = Len(calls)

\* three calls have returned, two of them overlapped (they read the same
\* registry size), and the registry holds three entries
C9_Witness ==
  /\ variant # "relay"
  /\ Cardinality(Completed) = 3
  /\ Len(clients) = 3
  /\ \E i, j \in DOMAIN clients : i # j /\ Counter(clients[i].key) = Counter(clients[j].key)

\* C10: identities follow registration order. The counter of the identity of
\* the k-th registry entry is k-1.
C10_CounterIsRegistrationOrder ==
  \A k \in DOMAIN clients : Counter(EntryId(clients[k])) = k - 1

\* C11: the registry never shrinks. No step removes or replaces the socket
\* of a registry entry; a socket that disconnected stays registered, every
\* fresh payload from another socket whose addSocket has returned is emitted
\* to it exactly once, and the event last handled was emitted to every
\* socket that was disconnected by then.
C11_RegistryNeverShrinks ==
  /\ [][\A i \in DOMAIN clients :
         i \in DOMAIN clients' /\ clients'[i].socket = clients[i].socket]_vars
  /\ [](\A t \in disconnected :
         /\ t \in SocketsOf(clients)
         /\ \A e \in Sockets \ {t} : Wired(e) =>
              \A p \in Payloads : Fresh(p) => EmitsTo(Dispatch(e, p), t) = 1)
  /\ [](last.emits # <<>> => last.down \ {last.at} \subseteq Targets(last.emits))

\* in a mesh of three a socket had disconnected, and the publish of another
\* socket was emitted to it all the same
C11_Witness ==
  /\ last.size = 3
  /\ last.down # {}
  /\ last.at \notin last.down
  /\ last.down \subseteq Targets(last.emits)
  /\ last.down \subseteq SocketsOf(clients)

\* C12: the seen-set grows monotonically. No step, neither a message nor a
\* step of an addSocket call, takes a referenceId out of the seen-set.
C12_SeenSetMonotonic == [][multicastedRefs \subseteq multicastedRefs']_vars

\* r1 was handled, then a payload without r while the registry held one
\* socket, then the other addSocket calls returned: both are in the seen-set
C12_Witness ==
  /\ DedupVariant
  /\ last.payload.r = Undefined
  /\ ~last.payload.null
  /\ last.size = 1
  /\ Cardinality(Completed) = 3
  /\ multicastedRefs = {"r1", Undefined}

\* C13: origin stamping. Every copy the relay emits for a payload is an
\* object with the payload's referenceId and with the origin stamp set to the
\* identity attached to the socket the payload arrived on, which is a real
\* identity; so were the copies of the event last handled, and the payload
\* object of that event is afterwards what it was when it arrived.
C13_OriginStamping ==
  /\ \A s \in Sockets : \A p \in Payloads :
       \A i \in DOMAIN Dispatch(s, p).emits :
         LET copy == Dispatch(s, p).emits[i].payload
         IN  /\ ~copy.null
             /\ copy.r = p.r
             /\ copy.origin = sockId[s]
             /\ sockId[s] # NoId
  /\ \A i \in DOMAIN last.emits :
       /\ last.emits[i].payload.r = last.payload.r
       /\ last.emits[i].payload.origin = sockId[last.at]
  /\ last.after = last.payload

\* an unstamped payload with referenceId r1 was relayed from the third
\* registered socket to the two others, stamped with that socket's identity
C13_Witness ==
  /\ Len(clients) = 3
  /\ last.at = clients[3].socket
  /\ last.payload = Payload(FALSE, "r1", NoId)
  /\ Len(last.emits) = 2
  /\ \A i \in DOMAIN last.emits :
       last.emits[i].payload = Payload(FALSE, "r1", sockId[last.at])

\* the copies the relay has emitted for publish n or for a message that
\* descends from it, per socket and in all
CopiesTo(t, n) == Cardinality({i \in DOMAIN emitted[t] : emitted[t][i].of = n})

RECURSIVE SumCopies(_, _)
SumCopies(ts, n) ==
  IF ts = {} THEN 0
  ELSE LET t == CHOOSE x \in ts : TRUE
       IN  CopiesTo(t, n) + SumCopies(ts \ {t}, n)

Copies(n) == SumCopies(Sockets, n)

\* the copies of publish n that endpoints have sent back to the relay
Echoes(n) == {m \in DOMAIN sent : sent[m].of = n /\ m # n}

NoneInFlight ==
  /\ \A n \in DOMAIN sent : sent[n].seq > 0
  /\ \A t \in Sockets : got[t] = Len(emitted[t])

\* C14: one-hop termination, with endpoints that send stamped copies back.
\* A publish that is still on its way has caused no emit; one that the relay
\* took for fresh in a mesh of N has caused exactly N-1 emits, and no
\* returning copy ever adds one (so at most N-1 copies ever return); one that
\* the relay did not take for fresh has caused none. With the transport
\* delivering, the system is again and again without a message in flight.
C14_OneHopTermination ==
  /\ [](\A n \in Originals :
          /\ Copies(n) = IF sent[n].seq > 0 /\ sent[n].fresh
                           THEN sent[n].size - 1 ELSE 0
          /\ Cardinality(Echoes(n)) <= Copies(n)
          /\ \A m \in Echoes(n) : HasOrigin(sent[m].payload))
  /\ []<>NoneInFlight

\* a fresh publish in a mesh of three caused two emits; both copies were
\* received and sent back, both came back to the relay, and nothing is in flight
C14_Witness ==
  /\ NoneInFlight
  /\ \E n \in Originals :
       /\ sent[n].fresh
       /\ sent[n].size = 3
       /\ Copies(n) = 2
       /\ Cardinality(Echoes(n)) = 2

\* how often the route listener of the endpoint behind t was called with a
\* copy of publish n
Received(t, n) ==
  Cardinality({i \in 1..got[t] : emitted[t][i].of = n})

\* publish n carries a reference, and the relay took it for fresh in a mesh
\* of three
SyncRequest(n) ==
  /\ n \in Originals
  /\ sent[n].payload.r \in Refs
  /\ sent[n].seq > 0
  /\ sent[n].fresh
  /\ sent[n].size = 3

\* every message sent has reached the relay, and every reference the relay
\* took for fresh in a mesh of three has been received by the two others
Synced ==
  \A n \in DOMAIN sent :
    /\ sent[n].seq > 0
    /\ SyncRequest(n) =>
         \A t \in SocketsOf(clients) \ {sent[n].from} : Received(t, n) = 1

\* C15: end-to-end sync. No endpoint ever receives a copy of one publish
\* twice, the publisher receives none, and a copy carries the reference of
\* its publish. With the transport delivering, every message sent reaches
\* the relay, and a reference that one endpoint publishes in a mesh of three
\* and that the relay takes for fresh is received by each of the two other
\* endpoints (what has been received stays received, so "again and again
\* all are synced" says that each one eventually is).
C15_EndToEndSync ==
  /\ [](\A n \in Originals :
          /\ Received(sent[n].from, n) = 0
          /\ \A t \in Sockets : Received(t, n) <= 1
          /\ \A t \in Sockets : \A i \in DOMAIN emitted[t] :
               emitted[t][i].of = n => emitted[t][i].payload.r = sent[n].payload.r)
  /\ []<>Synced

\* the first endpoint published r1; the two others have each received it
\* once and the first has received nothing
C15_Witness ==
  /\ Len(clients) = 3
  /\ SyncRequest(1)
  /\ sent[1].from = clients[1].socket
  /\ got[clients[1].socket] = 0
  /\ Received(clients[2].socket, 1) = 1
  /\ Received(clients[3].socket, 1) = 1

\* the sockets of the registry as it was at the last rewiring: a rewiring
\* subscribes every registered socket and nothing else subscribes one, so
\* with every socket passed once they are the sockets that carry a listener
SubscribedSockets == {t \in Sockets : listeners[t] # <<>>}

\* C16 as claimed: a fresh payload received on a subscription is emitted
\* exactly to the sockets, other than its own, that were in the registry at
\* the last rewiring, also while a call has inserted a socket and not yet rewired.
C16_ForwardsToWiringTimePeers ==
  \A s \in SubscribedSockets : \A p \in Payloads :
    Fresh(p) => Targets(Dispatch(s, p).emits) = SubscribedSockets \ {s}

\* C16 as amended: a fresh payload received on a subscription is emitted
\* exactly to the sockets, other than its own, that are in the registry when
\* the payload arrives, among them a socket that a call has inserted and
\* not yet subscribed; the event last handled had one emit per other entry.
C16_ForwardsToCurrentRegistry ==
  /\ \A s \in SubscribedSockets : \A p \in Payloads :
       Fresh(p) => Targets(Dispatch(s, p).emits) = SocketsOf(clients) \ {s}
  /\ last.emits # <<>> => Len(last.emits) = last.size - 1

\* a publish was emitted to a socket whose addSocket call had stored it in
\* the registry and had not yet rewired
C16_Witness ==
  /\ last.size = 3
  /\ Len(last.emits) = 2
  /\ \E c \in InProgress :
       /\ calls[c].socket \in SocketsOf(clients)
       /\ calls[c].socket \in Targets(last.emits)
       /\ listeners[calls[c].socket] = <<>>

\* C17: the relay never throws once wired. For every payload that can
\* arrive on a subscribed route, null and payloads without referenceId
\* included, the callback returns normally; so did the last one that ran.
C17_RelayNeverThrows ==
  /\ \A s \in SubscribedSockets : \A p \in Payloads : ~Dispatch(s, p).threw
  /\ ~last.threw

\* C18: forwarding failures are swallowed. When the emit to one recipient
\* throws while a fresh payload is being forwarded, the callback still
\* returns normally and the payload is still emitted to every other
\* recipient; the callback last run returned normally.
C18_EmitFailureSwallowed ==
  /\ \A s \in SubscribedSockets : \A p \in Payloads : \A t \in Sockets :
       Fresh(p) =>
         LET o == Interrupted(Dispatch(s, p), {t})
         IN  /\ ~o.threw
             /\ Targets(o.emits) = SocketsOf(clients) \ {s, t}
  /\ ~last.threw

\* C19: no reordering by the relay. The copies emitted on one socket that
\* stem from messages of one endpoint lie in the order in which those
\* messages reached the relay: if m1 reached the relay before m2, both from
\* E, no copy of m2 precedes a copy of m1 on any socket.
C19_NoReordering ==
  \A t \in Sockets : \A i, j \in DOMAIN emitted[t] :
    LET m1 == emitted[t][i].of
        m2 == emitted[t][j].of
    IN  (i < j /\ sent[m1].from = sent[m2].from) => sent[m1].seq < sent[m2].seq

\* one endpoint published r1 and then a payload without r; the relay took
\* both for fresh, and another endpoint received the copy of the first and
\* then the copy of the second
C19_Witness ==
  /\ Len(sent) = 2
  /\ sent[1].from = sent[2].from
  /\ sent[1].fresh /\ sent[2].fresh
  /\ sent[1].seq = 1 /\ sent[2].seq = 2
  /\ \E t \in Sockets :
       /\ got[t] = 2
       /\ emitted[t][1].of = 1
       /\ emitted[t][2].of = 2

\* C20: initialization error. The Server that extends BaseNode, constructed
\* on a local Io that is not open, is never built: the constructor throws
\* before it has filled _ios, and no addSocket call is ever made on it.
C20_UnopenedIoThrows ==
  (variant = "store" /\ ~isOpen) =>
    /\ node \in {"new", "threw"}
    /\ ios = <<>>
    /\ calls = <<>>
    /\ clients = <<>>

\* the constructor ran on a local Io that was not open, and threw
C20_Witness ==
  /\ variant = "store"
  /\ ~isOpen
  /\ node = "threw"

\* C22: fan-in rebuild on join. In the store-backed relay, when no addSocket
\* call is suspended, the current IoServer serves the newest IoMulti and
\* every registered socket is attached to that IoServer and to no IoServer
\* that an earlier addSocket created.
C22_AttachedToNewestOnly ==
  (variant = "store" /\ InProgress = {} /\ clients # <<>>) =>
    /\ ioServer.multi = ioMulti
    /\ \A s \in SocketsOf(clients) : attached[s] = {ioServer.by}

\* the sockets a forwarding scope is built from
ScopeSockets(e) == {e.scope[k] : k \in DOMAIN e.scope}

\* C23: forwarding scope. In the per-client variant, when addSocket calls do
\* not overlap and the last one has returned with N >= 2 registered clients,
\* the IoServer of every client (ioServerToOtherClients) is built from the
\* N-1 sockets of the other clients, each once, and not from its own socket.
C23_ScopeIsTheOthers ==
  (variant = "perClient" /\ InProgress = {} /\ Len(clients) >= 2) =>
    \A i \in DOMAIN clients :
      /\ clients[i].scope # NoScope
      /\ Len(clients[i].scope) = Len(clients) - 1
      /\ ScopeSockets(clients[i]) = SocketsOf(clients) \ {clients[i].socket}

\* three clients joined one after the other, each scope holding two sockets
C23_Witness ==
  /\ variant = "perClient"
  /\ Cardinality(Completed) = 3
  /\ Len(clients) = 3
  /\ \A i \in DOMAIN clients :
       /\ Len(clients[i].scope) = 2
       /\ clients[i].socket \notin ScopeSockets(clients[i])

\* the stamped payloads whose referenceId the seen-set does not hold
StampedUnseen ==
  {p \in Payloads : HasOrigin(p) /\ p.r \notin multicastedRefs}

\* C26: check order in the ref-dedup relay. The seen-set test and insertion
\* come before the test of the origin stamp: a stamped message with an unseen
\* referenceId R is forwarded to nobody and R is in the seen-set afterwards,
\* and an unstamped message with the same R that comes in after it, on any
\* subscribed socket, is forwarded to nobody.
C26_SeenBeforeStamp ==
  DedupVariant =>
    /\ \A s \in SubscribedSockets : \A p \in StampedUnseen :
         LET o == Dispatch(s, p)
         IN  /\ o.emits = <<>>
             /\ p.r \in o.seen
             /\ \A t \in SubscribedSockets :
                  RunListeners(listeners[t], Payload(FALSE, p.r, NoId),
                               Outcome(<<>>, o.seen, FALSE)).emits = <<>>
    /\ (HasOrigin(last.payload) /\ ~last.known /\ last.ran > 0) =>
         /\ last.emits = <<>>
         /\ last.payload.r \in multicastedRefs

\* a stamped message with an unseen referenceId came in on a subscribed
\* socket of a registry of three
C26_Witness ==
  /\ DedupVariant
  /\ HasOrigin(last.payload)
  /\ last.payload.r \in Refs
  /\ ~last.known
  /\ last.ran = 1
  /\ last.size = 3
  /\ last.emits = <<>>
  /\ last.payload.r \in multicastedRefs

\* C27: rewiring is atomic for message handling. The teardown of the route
\* subscriptions and their re-registration are one step: in every state a
\* message handler can run in, every socket that a returned addSocket wired
\* has its route subscription, and no step takes the subscription of a
\* socket away.
C27_RewiringAtomic ==
  /\ [](\A s \in Sockets : Wired(s) => listeners[s] # <<>>)
  /\ [][\A s \in Sockets : listeners[s] # <<>> => listeners'[s] # <<>>]_vars

\* a message was handled on the first socket after two later addSocket
\* calls rewired it
C27_Witness ==
  /\ Cardinality(Completed) = 3
  /\ Len(calls) = 3
  /\ calls[1].socket = last.at
  /\ last.size = 3
  /\ last.ran = 1
  /\ Len(last.emits) = 2

\* C30: fan-in capability flags. In every state of the store-backed relay
\* the fan-in list starts with the local Io (dump, read and write enabled,
\* priority 1), which is its only source with write or dump enabled, and
\* every source behind it is the peer of an addSocket call: read-only
\* (read enabled, write and dump disabled) at priority 2.
C30_FanInFlags ==
  variant = "store" =>
    /\ ios # <<>>
    /\ ios[1] = LocalIo
    /\ ios[1].write /\ ios[1].dump /\ ios[1].read /\ ios[1].priority = 1
    /\ Cardinality({k \in DOMAIN ios : ios[k].write /\ ios[k].dump}) = 1
    /\ \A k \in 2..Len(ios) :
         /\ ios[k].io \in DOMAIN calls
         /\ ios[k].read /\ ~ios[k].write /\ ~ios[k].dump
         /\ ios[k].priority = 2

\* three addSocket calls have pushed their peers
C30_Witness ==
  /\ variant = "store"
  /\ Len(ios) = 4
  /\ Cardinality(Completed) = 3
  /\ \A k \in 2..4 : ios[k].io = k - 1 /\ ~ios[k].write

\* C29: failure atomicity of addSocket in the store-backed relay. A call
\* that failed at one of its awaited steps has left no client in the
\* registry and no peer in the fan-in list, and whenever no addSocket is in
\* progress the fan-in list has exactly one entry more than the registry.
C29_FailureAtomic ==
  variant = "store" =>
    /\ \A c \in Failed :
         /\ \A i \in DOMAIN clients : clients[i].io # c
         /\ \A k \in DOMAIN ios : ios[k].io # c
    /\ InProgress = {} => Len(ios) = Len(clients) + 1

\* C28: frame of rewiring. The step in which an addSocket call rewires
\* leaves no listener for the route that the relay did not install on any
\* registered socket, the new socket and listeners registered by others
\* included, and exactly one listener of the relay on each; and no step of
\* an addSocket call changes the listeners for another event name on any
\* socket.
C28_RewiringFrame ==
  /\ [][Cardinality(Completed') > Cardinality(Completed) =>
         \A s \in SocketsOf(clients') :
           /\ foreign'[s].route = 0
           /\ Len(listeners'[s]) = 1]_vars
  /\ [][calls' # calls =>
         \A s \in Sockets : foreign'[s].other = foreign[s].other]_vars

\* every socket had a route listener and has a listener for another event
\* name that the relay did not install; after three addSocket calls the
\* route listeners of others are gone and the other listeners are there
C28_Witness ==
  /\ Cardinality(Completed) = 3
  /\ Len(clients) = 3
  /\ \A s \in SocketsOf(clients) :
       /\ foreign[s].on = 1
       /\ foreign[s].route = 0
       /\ foreign[s].other = 1
       /\ Len(listeners[s]) = 1

\* an addIoMultiIo call of the Client has returned
AddCompleted == \E c \in DOMAIN client.adds : client.adds[c] = "done"

\* C21: precondition error of the Client. A createTables or import called
\* before the first addIoMultiIo has returned throws 'Db not initialized'
\* and changes no field of the Client (db, io, connector, mem, io list);
\* one called after an addIoMultiIo has returned does not throw that error.
C21_DbNotInitialized ==
  /\ [](AddCompleted <=> client.db # 0)
  /\ [][Len(client'.ops) = Len(client.ops) + 1 =>
         LET call == client'.ops[Len(client'.ops)]
         IN  /\ call.error = "Db not initialized" <=> ~AddCompleted
             /\ ~AddCompleted => call.error # "none"
             /\ call.error # "none" =>
                  client' = [client EXCEPT !.ops = Append(@, call)]]_vars

\* createTables was called while the first addIoMultiIo was suspended at
\* the init of its IoMulti and threw; import was called after it returned
\* and did not throw
C21_Witness ==
  /\ client.ops = <<[op |-> "createTables", error |-> "Db not initialized"],
                    [op |-> "import", error |-> "none"]>>
  /\ client.adds = <<"done">>
  /\ client.ios = 1
  /\ client.db = 1

\* C24: SocketIoBridge passes acknowledgements through unchanged. For every
\* emit through the bridge that ends with an acknowledgement callback, to a
\* handler registered through a bridge that calls its callback with one
\* value, the emitter's callback is called exactly once, with that value as
\* its only argument (true stays true, false stays false).
C24_AckPassThrough ==
  /\ Len(bridge.acked) <= Len(bridge.replied)
  /\ \A i \in DOMAIN bridge.acked : bridge.acked[i] = <<bridge.replied[i]>>
  /\ (bridge.wire = <<>> /\ bridge.reply = <<>>) =>
       Len(bridge.acked) = bridge.asks

\* two emits with a callback, acknowledged with true and with false
C24_Witness ==
  /\ bridge.asks = 2
  /\ bridge.acked = << <<TRUE>>, <<FALSE>> >>

\* C25: SocketIoBridge.connect on a socket without a connect method (a
\* server socket) does not throw and leaves the socket as it is, connected
\* or disconnected; on a client socket it calls the connect of the socket
\* once.
C25_ConnectNoOpOnServer ==
  /\ [](~bridge.threw)
  /\ [][bridge'.connects = bridge.connects + 1 =>
         IF bridge.kind = "server"
           THEN bridge' = [bridge EXCEPT !.connects = @ + 1]
           ELSE bridge' = [bridge EXCEPT !.connects = @ + 1, !.raw = @ + 1]]_vars

\* connect was called on a bridge around a server socket, also after the
\* socket was disconnected
C25_Witness ==
  /\ bridge.kind = "server"
  /\ bridge.connects = MaxConnects
  /\ bridge.raw = 0
  /\ ~bridge.connected
  /\ ~bridge.threw

\* C31: overlapping joins in the per-client variant. When addSocket calls
\* overlap at their awaits and all of them have returned, the IoServer of
\* every client is built from all the other registered sockets: no scope
\* lacks a socket that was registered by a call that overlapped.
C31_ScopesAfterOverlap ==
  (variant = "perClient" /\ calls # <<>> /\ Completed = DOMAIN calls
     /\ Len(clients) >= 2) =>
    \A i \in DOMAIN clients :
      SocketsOf(clients) \ {clients[i].socket} \subseteq ScopeSockets(clients[i])

\* C32: addIoMultiIo rebuilds the stack of the Client. When k addIoMultiIo
\* calls have returned, none is suspended and tearDown was not called, the
\* IoMulti of the Client was given the k IoMultiIos passed so far, every Io
\* under it is open, it is the only open IoMulti (the one before it was
\* closed), and db, connector and mem are defined.
C32_StackRebuilt ==
  (client.adds # <<>> /\ client.downs = 0
     /\ \A c \in DOMAIN client.adds : client.adds[c] = "done") =>
    /\ client.parts = Len(client.adds)
    /\ client.ios = Len(client.adds)
    /\ client.up
    /\ client.live = {client.io}
    /\ client.db # 0 /\ client.connector # 0 /\ client.mem # 0

\* C33: one listening pair per Client. After any number of addIoMultiIo
\* calls only the Connector and the MultiEditManager created last are
\* active on the socket of the Client; a pair that an earlier call created
\* is not, so that an incoming edit-history reference is handled once.
C33_OnlyNewestPairListens ==
  /\ client.listening \subseteq {client.connector}
  /\ client.mems \subseteq {client.mem}

\* C34: tearDown is safe in every state. No tearDown throws, the second one
\* on the same Client included; on a Client on which no addIoMultiIo has
\* returned it changes no field; on an initialised Client the IoMulti in
\* _io is not open afterwards and the current Connector and
\* MultiEditManager are torn down.
C34_TearDownSafe ==
  /\ [](client.error = "none")
  /\ [][client'.downs = client.downs + 1 =>
         IF ~AddCompleted
           THEN client' = [client EXCEPT !.downs = @ + 1]
           ELSE /\ client'.live = client.live \ {client.io}
                /\ client.connector \notin client'.listening
                /\ client.mem \notin client'.mems
                /\ client'.db = client.db]_vars

\* tearDown was called twice on a Client initialised by one addIoMultiIo
C34_Witness ==
  /\ client.downs = 2
  /\ client.adds = <<"done">>
  /\ client.live = {}
  /\ client.listening = {}
  /\ client.mems = {}
  /\ client.error = "none"

\* C35: a listener registered with bridge.on(event, l) is called for the
\* events of that name on the socket; after bridge.off(event, l) or
\* bridge.removeAllListeners(event) it is no longer called, and the
\* listeners of the other event names stay registered; on, off, emit and
\* removeAllListeners return the bridge.
C35_ListenerRoundTrip ==
  /\ [](bridge.ret.value \in {"none", This})
  /\ [][Len(bridge'.heard) = Len(bridge.heard) + 1 =>
         LET e == bridge'.heard[Len(bridge'.heard)]
         IN  e.fns = {l \in Listeners : <<e.ev, l>> \in bridge.wanted}]_vars
  /\ [][\A ev \in EventNames :
         LET on == {l \in Listeners : \E r \in bridge.subs : r.ev = ev /\ r.f.fn = l}
             on_ == {l \in Listeners : \E r \in bridge'.subs : r.ev = ev /\ r.f.fn = l}
             gone == {l \in Listeners : <<ev, l>> \in bridge.wanted \ bridge'.wanted}
         IN  bridge'.ret.call \in {"off", "removeAllListeners"} /\ bridge'.subs # bridge.subs
               => on_ = on \ gone]_vars

\* an event called two listeners, one of them was removed with off while
\* a listener of the other event name stayed, and the next event of the name
\* called only the listener that was left
C35_Witness ==
  /\ bridge.ret.call = "off"
  /\ bridge.wanted = {<<"route", "l2">>, <<"other", "l1">>}
  /\ bridge.heard = <<[ev |-> "route", fns |-> {"l1", "l2"}],
                      [ev |-> "route", fns |-> {"l2"}]>>

\* C36: every constructed node has its local Db set, so neither
\* createTables nor import ever throws 'Local Db not initialized'.
C36_LocalDbGuardDead ==
  /\ (variant = "store" /\ node = "built") => base.localDb
  /\ \A i \in DOMAIN base.ops : base.ops[i].result = "ok"

\* createTables and import ran on a node built by the constructor, after a
\* socket was added
C36_Witness ==
  /\ variant = "store"
  /\ node = "built"
  /\ Completed # {}
  /\ base.ops = <<[op |-> "createTables", result |-> "ok"],
                  [op |-> "import", result |-> "ok"]>>
====
